---- MODULE Spec2Model ----
(***************************************************************************)
(* folly/experimental/observer/detail/ObserverManager.cpp                  *)
(*                                                                         *)
(* The manager owns two bounded MPMC queues.  NextQueue has one thread     *)
(* that collects node references into a batch, bumps manager_.version_     *)
(* under the write lock and hands every node of the batch to               *)
(* scheduleRefresh.  CurrentQueue has a pool of workers that run tasks.    *)
(* External threads and tasks running on workers call scheduleNext and     *)
(* scheduleCurrent.                                                        *)
(*                                                                         *)
(* Teardown takes one of two ways: ~ObserverManager as it is written       *)
(* (release() on both unique_ptrs, which destroys neither queue), or the   *)
(* destructors of the two queues, ~NextQueue then ~CurrentQueue, which is  *)
(* what the comment in ~ObserverManager describes.                         *)
(*                                                                         *)
(* The dependency recorder keeps a thread-local pointer to the set that    *)
(* collects the nodes read during a recomputation; its state is apart      *)
(* from the queues' and it is specified on its own (SpecRecorder).         *)
(* SpecPipeline is the two queues under a longer load of scheduleNext      *)
(* calls, SpecFair adds the scheduling assumptions termination needs.      *)
(***************************************************************************)
EXTENDS Integers, Sequences, FiniteSets

\* ------------------------------------------------------------------ bounds
\* The queue capacities and the pool size of the source (10 * 1024, 10 * 1024
\* and 4) are scaled down; every formula is stated in terms of these names.
kCurrentThreadPoolSize == 2
kCurrentQueueSize == 2
kNextQueueSize == 2
\* scheduleNext calls and scheduleCurrent calls issued over a run
MaxNextCalls == 3
MaxCurCalls == 1
\* recording scopes nested on one thread, and reads made over a run
\* scheduleNext calls issued over a run of the two queues under load
MaxPipelineCalls == 9
MaxScopeDepth == 2
MaxReads == 4

Callers == {<<"caller", 1>>, <<"caller", 2>>}
Workers == {<<"worker", i>> : i \in 1..kCurrentThreadPoolSize}
\* Every scheduleNext call passes a node of its own, numbered by the order in
\* which the calls are issued (the code never looks at which node it holds
\* beyond the null test).
Nodes == 1..MaxNextCalls
Readers == {"r1"}
NextThread == <<"next", 0>>
Threads == Callers \cup Workers \cup {NextThread}

\* The threads that read node values and the nodes they read: one pool
\* thread recomputing a node and one other thread
RecorderThreads == {<<"worker", 1>>, <<"caller", 1>>}
DepNodes == {"B", "C", "D"}
\* nullptr, the value currentDependencies_ starts with
NullDeps == << >>

\* Core::Ptr{} / Function<void()>{} : the empty values used as sentinels
NullCore == 0
NullTask == [core |-> NullCore, version |-> 0, forced |-> FALSE, empty |-> TRUE]
\* a task handed to scheduleCurrent by a caller or by a running task
WorkTask == [core |-> NullCore, version |-> 0, forced |-> FALSE, empty |-> FALSE]

VARIABLES
    nextQ,            \* NextQueue::queue_     : Seq(Nodes \cup {NullCore})
    curQ,             \* CurrentQueue::queue_  : Seq(task)
    version,          \* manager_.version_
    writeHeld,        \* versionMutex_ held exclusively (by the NextQueue thread)
    readHeld,         \* threads holding versionMutex_ shared
    nextPc,           \* position of the NextQueue thread
    cores,            \* its local std::vector<Core::Ptr> cores
    coreIdx,          \* position of the range-for over cores
    workerPc,         \* position of each CurrentQueue thread
    inManagerThread,  \* FOLLY_TLS bool inManagerThread_, per thread
    pending,          \* the blocking write a caller or a task is waiting in
    td,               \* teardown position
    tdCount,          \* sentinels pushed by ~CurrentQueue
    logged,           \* LOG(ERROR) lines written by the worker loops
    nextCalls,        \* scheduleNext calls issued
    curCalls,         \* scheduleCurrent calls issued by callers and tasks
    acceptedNext,     \* nodes whose scheduleNext call has returned
    batch,            \* batches started (blocking reads that returned a node)
    hist,             \* scheduleRefresh calls made, in order
    accepted,         \* tasks written into curQ
    started,          \* tasks taken out of curQ and started by a worker
    lastAdd           \* outcome of the latest CurrentQueue::add

VARIABLES
    currentDependencies,  \* FOLLY_TLS Dependencies* currentDependencies_, per thread
    scopes,               \* the recording scopes open on each thread, outermost first
    readIn,               \* the nodes each thread has read inside each of its open scopes
    yielded,              \* what the latest scope exit returned
    depReads              \* reads made

recorderVars == << currentDependencies, scopes, readIn, yielded, depReads >>

vars == << nextQ, curQ, version, writeHeld, readHeld, nextPc, cores, coreIdx,
           workerPc, inManagerThread, pending, td, tdCount, logged,
           nextCalls, curCalls, acceptedNext, batch, hist, accepted, started,
           lastAdd >>

Idle == [op |-> "idle", core |-> NullCore]

Init ==
    /\ nextQ = << >>
    /\ curQ = << >>
    /\ version = 0
    /\ writeHeld = FALSE
    /\ readHeld = {}
    /\ nextPc = "read"
    /\ cores = << >>
    /\ coreIdx = 0
    /\ workerPc = [w \in Workers |-> "start"]
    /\ inManagerThread = [t \in Threads |-> FALSE]
    /\ pending = [t \in Callers \cup Workers |-> Idle]
    /\ td = "live"
    /\ tdCount = 0
    /\ logged = 0
    /\ nextCalls = 0
    /\ curCalls = 0
    /\ acceptedNext = {}
    /\ batch = 0
    /\ hist = << >>
    /\ accepted = 0
    /\ started = 0
    /\ lastAdd = [by |-> NextThread, result |-> "none"]
    /\ currentDependencies = [t \in RecorderThreads |-> NullDeps]
    /\ scopes = [t \in RecorderThreads |-> << >>]
    /\ readIn = [t \in RecorderThreads |-> << >>]
    /\ yielded = [by |-> NextThread, deps |-> {}, read |-> {}]
    /\ depReads = 0

\* ------------------------------------------------------------ MPMCQueue
\* folly::MPMCQueue is used as a bounded FIFO: write() fails on a full queue,
\* blockingWrite() waits for room, read() fails on an empty queue and
\* blockingRead() waits for an element.
IsFull(q, capacity) == Len(q) >= capacity

\* ------------------------------------------------- ObserverManager state
\* nextQueue_ / currentQueue_ still point at their queue
NextQueueUsable == td = "live"
CurrentQueueUsable == td \in {"live", "relNext", "nqJoin", "cqPush", "cqJoin"}
\* the ObserverManager object the NextQueue thread refers to is alive
ManagerAlive == td # "released"

CallersIdle == \A c \in Callers : pending[c] = Idle

\* ------------------------------------------------------ CurrentQueue::add
\* What add() does on thread t with the queue as it is now: a pool thread
\* makes one write() attempt and throws when it fails, any other thread
\* calls blockingWrite().
\* add() that calls blockingWrite() on every thread
AddOutcomeAlwaysBlocking(t) ==
    IF IsFull(curQ, kCurrentQueueSize) THEN "blocked" ELSE "written"

\* add() that makes the single write() attempt on every thread
AddOutcomeNeverBlocking(t) ==
    IF IsFull(curQ, kCurrentQueueSize) THEN "overload" ELSE "written"

AddOutcome(t) ==
    IF inManagerThread[t]
    THEN IF IsFull(curQ, kCurrentQueueSize) THEN "overload" ELSE "written"
    ELSE IF IsFull(curQ, kCurrentQueueSize) THEN "blocked" ELSE "written"

\* The queue after add(task) on thread t.
CurrentQueueAdd(t, task) ==
    /\ lastAdd' = [by |-> t, result |-> AddOutcome(t)]
    /\ curQ' = IF AddOutcome(t) = "written" THEN Append(curQ, task) ELSE curQ
    /\ accepted' = IF AddOutcome(t) = "written" THEN accepted + 1 ELSE accepted

\* A blockingWrite() that was waiting for room in curQ returns.
ResumeCurrent(t) ==
    /\ pending[t].op = "cur"
    /\ ~IsFull(curQ, kCurrentQueueSize)
    /\ curQ' = Append(curQ, WorkTask)
    /\ accepted' = accepted + 1
    /\ lastAdd' = [by |-> t, result |-> "written"]
    /\ pending' = [pending EXCEPT ![t] = Idle]
    /\ UNCHANGED << nextQ, version, writeHeld, readHeld, nextPc, cores, coreIdx,
                    workerPc, inManagerThread, td, tdCount, logged, nextCalls,
                    curCalls, acceptedNext, batch, hist, started >>
    /\ UNCHANGED recorderVars

\* --------------------------------------------------------- NextQueue::add
\* queue_.blockingWrite(core) on thread t: returns at once when there is
\* room, otherwise t waits in the write.
NextQueueAdd(t, core) ==
    IF IsFull(nextQ, kNextQueueSize)
    THEN /\ pending' = [pending EXCEPT ![t] = [op |-> "next", core |-> core]]
         /\ UNCHANGED << nextQ, acceptedNext >>
    ELSE /\ nextQ' = Append(nextQ, core)
         /\ acceptedNext' = acceptedNext \cup {core}
         /\ UNCHANGED pending

\* A blockingWrite() that was waiting for room in nextQ returns.
ResumeNext(t) ==
    /\ pending[t].op = "next"
    /\ ~IsFull(nextQ, kNextQueueSize)
    /\ nextQ' = Append(nextQ, pending[t].core)
    /\ acceptedNext' = acceptedNext \cup {pending[t].core}
    /\ pending' = [pending EXCEPT ![t] = Idle]
    /\ UNCHANGED << curQ, version, writeHeld, readHeld, nextPc, cores, coreIdx,
                    workerPc, inManagerThread, td, tdCount, logged, nextCalls,
                    curCalls, batch, hist, accepted, started, lastAdd >>
    /\ UNCHANGED recorderVars

\* ----------------------------------------- calls made by external threads
\* ObserverManager::scheduleCurrent(task) from an external thread
CallerScheduleCurrent(c) ==
    /\ td = "live"
    /\ pending[c] = Idle
    /\ curCalls < MaxCurCalls
    /\ curCalls' = curCalls + 1
    /\ CurrentQueueAdd(c, WorkTask)
    /\ pending' = IF AddOutcome(c) = "blocked"
                  THEN [pending EXCEPT ![c] = [op |-> "cur", core |-> NullCore]]
                  ELSE pending
    /\ UNCHANGED << nextQ, version, writeHeld, readHeld, nextPc, cores, coreIdx,
                    workerPc, inManagerThread, td, tdCount, logged, nextCalls,
                    acceptedNext, batch, hist, started >>
    /\ UNCHANGED recorderVars

\* ObserverManager::scheduleNext(core) from an external thread, as one of at
\* most max calls
CallerScheduleNextUpTo(c, max) ==
    /\ td = "live"
    /\ pending[c] = Idle
    /\ nextCalls < max
    /\ nextCalls' = nextCalls + 1
    /\ NextQueueAdd(c, nextCalls + 1)
    /\ UNCHANGED << curQ, version, writeHeld, readHeld, nextPc, cores, coreIdx,
                    workerPc, inManagerThread, td, tdCount, logged, curCalls,
                    batch, hist, accepted, started, lastAdd >>
    /\ UNCHANGED recorderVars

CallerScheduleNext(c) == CallerScheduleNextUpTo(c, MaxNextCalls)

\* ------------------------------------------------ CurrentQueue pool thread
\* A flag that is one plain static bool for all threads
WorkerStartSharedFlag(w) ==
    /\ workerPc[w] = "start"
    /\ inManagerThread' = [t \in Threads |-> TRUE]
    /\ workerPc' = [workerPc EXCEPT ![w] = "read"]
    /\ UNCHANGED << nextQ, curQ, version, writeHeld, readHeld, nextPc, cores,
                    coreIdx, pending, td, tdCount, logged, nextCalls, curCalls,
                    acceptedNext, batch, hist, accepted, started, lastAdd >>
    /\ UNCHANGED recorderVars

\* The thread starts: ObserverManager::inManagerThread_ = true
WorkerStart(w) ==
    /\ workerPc[w] = "start"
    /\ inManagerThread' = [inManagerThread EXCEPT ![w] = TRUE]
    /\ workerPc' = [workerPc EXCEPT ![w] = "read"]
    /\ UNCHANGED << nextQ, curQ, version, writeHeld, readHeld, nextPc, cores,
                    coreIdx, pending, td, tdCount, logged, nextCalls, curCalls,
                    acceptedNext, batch, hist, accepted, started, lastAdd >>
    /\ UNCHANGED recorderVars

\* A read that leaves the task in the queue
WorkerReadKeepsTask(w) ==
    /\ workerPc[w] = "read"
    /\ curQ # << >>
    /\ workerPc' = [workerPc EXCEPT ![w] = IF Head(curQ).empty THEN "done" ELSE "run"]
    /\ started' = IF Head(curQ).empty THEN started ELSE started + 1
    /\ UNCHANGED << nextQ, curQ, version, writeHeld, readHeld, nextPc, cores,
                    coreIdx, inManagerThread, pending, td, tdCount, logged,
                    nextCalls, curCalls, acceptedNext, batch, hist, accepted,
                    lastAdd >>
    /\ UNCHANGED recorderVars

\* queue_.blockingRead(task); an empty task ends the thread, any other task
\* is run.
WorkerRead(w) ==
    /\ workerPc[w] = "read"
    /\ curQ # << >>
    /\ curQ' = Tail(curQ)
    /\ workerPc' = [workerPc EXCEPT ![w] = IF Head(curQ).empty THEN "done" ELSE "run"]
    /\ started' = IF Head(curQ).empty THEN started ELSE started + 1
    /\ UNCHANGED << nextQ, version, writeHeld, readHeld, nextPc, cores, coreIdx,
                    inManagerThread, pending, td, tdCount, logged, nextCalls,
                    curCalls, acceptedNext, batch, hist, accepted, lastAdd >>
    /\ UNCHANGED recorderVars

\* task() returns
TaskReturns(w) ==
    /\ workerPc[w] = "run"
    /\ pending[w] = Idle
    /\ workerPc' = [workerPc EXCEPT ![w] = "read"]
    /\ UNCHANGED << nextQ, curQ, version, writeHeld, readHeld, nextPc, cores,
                    coreIdx, inManagerThread, pending, td, tdCount, logged,
                    nextCalls, curCalls, acceptedNext, batch, hist, accepted,
                    started, lastAdd >>
    /\ UNCHANGED recorderVars

\* A loop without the try block: the exception ends the thread
TaskThrowsEndsThread(w) ==
    /\ workerPc[w] = "run"
    /\ pending[w] = Idle
    /\ logged' = logged + 1
    /\ workerPc' = [workerPc EXCEPT ![w] = "done"]
    /\ UNCHANGED << nextQ, curQ, version, writeHeld, readHeld, nextPc, cores,
                    coreIdx, inManagerThread, pending, td, tdCount, nextCalls,
                    curCalls, acceptedNext, batch, hist, accepted, started,
                    lastAdd >>
    /\ UNCHANGED recorderVars

\* task() throws: catch (...) logs and the loop goes on
TaskThrows(w) ==
    /\ workerPc[w] = "run"
    /\ pending[w] = Idle
    /\ logged' = logged + 1
    /\ workerPc' = [workerPc EXCEPT ![w] = "read"]
    /\ UNCHANGED << nextQ, curQ, version, writeHeld, readHeld, nextPc, cores,
                    coreIdx, inManagerThread, pending, td, tdCount, nextCalls,
                    curCalls, acceptedNext, batch, hist, accepted, started,
                    lastAdd >>
    /\ UNCHANGED recorderVars

\* A loop without the try block: the std::runtime_error of add() ends the
\* thread
TaskScheduleCurrentUncaught(w) ==
    /\ workerPc[w] = "run"
    /\ pending[w] = Idle
    /\ CurrentQueueUsable
    /\ curCalls < MaxCurCalls
    /\ curCalls' = curCalls + 1
    /\ CurrentQueueAdd(w, WorkTask)
    /\ pending' = IF AddOutcome(w) = "blocked"
                  THEN [pending EXCEPT ![w] = [op |-> "cur", core |-> NullCore]]
                  ELSE pending
    /\ workerPc' = IF AddOutcome(w) = "overload"
                   THEN [workerPc EXCEPT ![w] = "done"]
                   ELSE workerPc
    /\ UNCHANGED << nextQ, version, writeHeld, readHeld, nextPc, cores, coreIdx,
                    inManagerThread, td, tdCount, logged, nextCalls, acceptedNext,
                    batch, hist, started >>
    /\ UNCHANGED recorderVars

\* The running task calls scheduleCurrent. The std::runtime_error of add()
\* leaves the task and is caught and logged by the loop.
TaskScheduleCurrent(w) ==
    /\ workerPc[w] = "run"
    /\ pending[w] = Idle
    /\ CurrentQueueUsable
    /\ curCalls < MaxCurCalls
    /\ curCalls' = curCalls + 1
    /\ CurrentQueueAdd(w, WorkTask)
    /\ pending' = IF AddOutcome(w) = "blocked"
                  THEN [pending EXCEPT ![w] = [op |-> "cur", core |-> NullCore]]
                  ELSE pending
    /\ logged' = IF AddOutcome(w) = "overload" THEN logged + 1 ELSE logged
    /\ workerPc' = IF AddOutcome(w) = "overload"
                   THEN [workerPc EXCEPT ![w] = "read"]
                   ELSE workerPc
    /\ UNCHANGED << nextQ, version, writeHeld, readHeld, nextPc, cores, coreIdx,
                    inManagerThread, td, tdCount, nextCalls, acceptedNext, batch,
                    hist, started >>
    /\ UNCHANGED recorderVars

\* The running task calls scheduleNext, as one of at most max calls.
TaskScheduleNextUpTo(w, max) ==
    /\ workerPc[w] = "run"
    /\ pending[w] = Idle
    /\ NextQueueUsable
    /\ nextCalls < max
    /\ nextCalls' = nextCalls + 1
    /\ NextQueueAdd(w, nextCalls + 1)
    /\ UNCHANGED << curQ, version, writeHeld, readHeld, nextPc, cores, coreIdx,
                    workerPc, inManagerThread, td, tdCount, logged, curCalls,
                    batch, hist, accepted, started, lastAdd >>
    /\ UNCHANGED recorderVars

TaskScheduleNext(w) == TaskScheduleNextUpTo(w, MaxNextCalls)

\* ------------------------------------------------------- NextQueue thread
\* ObserverManager::scheduleRefresh(core, version, force): the refresh task
\* handed to the pool
ScheduleRefresh(core, v, force) ==
    [core |-> core, version |-> v, forced |-> force, empty |-> FALSE]

\* A loop body that declares the WriteHolder ahead of the blocking read
NextBlockingReadUnderLock ==
    /\ nextPc = "read"
    /\ nextQ # << >>
    /\ ~writeHeld
    /\ readHeld = {}
    /\ nextQ' = Tail(nextQ)
    /\ IF Head(nextQ) = NullCore
       THEN /\ nextPc' = "done"
            /\ UNCHANGED << cores, batch, writeHeld >>
       ELSE /\ nextPc' = "drain"
            /\ writeHeld' = TRUE
            /\ cores' = << Head(nextQ) >>
            /\ batch' = batch + 1
    /\ UNCHANGED << curQ, version, readHeld, coreIdx, workerPc,
                    inManagerThread, pending, td, tdCount, logged, nextCalls,
                    curCalls, acceptedNext, hist, accepted, started, lastAdd >>
    /\ UNCHANGED recorderVars

\* queue_.blockingRead(queueCore); a null core ends the thread, any other
\* core starts the vector cores.
NextBlockingRead ==
    /\ nextPc = "read"
    /\ nextQ # << >>
    /\ nextQ' = Tail(nextQ)
    /\ IF Head(nextQ) = NullCore
       THEN /\ nextPc' = "done"
            /\ UNCHANGED << cores, batch >>
       ELSE /\ nextPc' = "lock"
            /\ cores' = << Head(nextQ) >>
            /\ batch' = batch + 1
    /\ UNCHANGED << curQ, version, writeHeld, readHeld, coreIdx, workerPc,
                    inManagerThread, pending, td, tdCount, logged, nextCalls,
                    curCalls, acceptedNext, hist, accepted, started, lastAdd >>
    /\ UNCHANGED recorderVars

\* The thread goes on without taking the lock
NextLockNotTaken ==
    /\ nextPc = "lock"
    /\ nextPc' = "drain"
    /\ UNCHANGED << nextQ, curQ, version, writeHeld, readHeld, cores, coreIdx,
                    workerPc, inManagerThread, pending, td, tdCount, logged,
                    nextCalls, curCalls, acceptedNext, batch, hist, accepted,
                    started, lastAdd >>
    /\ UNCHANGED recorderVars

\* A lock that lets the writer in while readers hold it
NextLockIgnoresReaders ==
    /\ nextPc = "lock"
    /\ ~writeHeld
    /\ writeHeld' = TRUE
    /\ nextPc' = "drain"
    /\ UNCHANGED << nextQ, curQ, version, readHeld, cores, coreIdx, workerPc,
                    inManagerThread, pending, td, tdCount, logged, nextCalls,
                    curCalls, acceptedNext, batch, hist, accepted, started,
                    lastAdd >>
    /\ UNCHANGED recorderVars

\* WriteHolder wh(manager_.versionMutex_)
NextLock ==
    /\ nextPc = "lock"
    /\ ~writeHeld
    /\ readHeld = {}
    /\ writeHeld' = TRUE
    /\ nextPc' = "drain"
    /\ UNCHANGED << nextQ, curQ, version, readHeld, cores, coreIdx, workerPc,
                    inManagerThread, pending, td, tdCount, logged, nextCalls,
                    curCalls, acceptedNext, batch, hist, accepted, started,
                    lastAdd >>
    /\ UNCHANGED recorderVars

\* A while condition that waits for the next core: blockingRead for read
DrainMoreBlocking == Len(cores) < kNextQueueSize

\* the while condition: cores.size() < kNextQueueSize && queue_.read(queueCore)
DrainMore == Len(cores) < kNextQueueSize /\ nextQ # << >>

\* One pass of the while loop: a null core returns from the thread function
\* (wh and cores are destroyed), any other core joins the vector.
NextDrain ==
    /\ nextPc = "drain"
    /\ DrainMore
    /\ nextQ' = Tail(nextQ)
    /\ IF Head(nextQ) = NullCore
       THEN /\ nextPc' = "done"
            /\ writeHeld' = FALSE
            /\ cores' = << >>
       ELSE /\ cores' = Append(cores, Head(nextQ))
            /\ UNCHANGED << nextPc, writeHeld >>
    /\ UNCHANGED << curQ, version, readHeld, coreIdx, workerPc, inManagerThread,
                    pending, td, tdCount, logged, nextCalls, curCalls,
                    acceptedNext, batch, hist, accepted, started, lastAdd >>
    /\ UNCHANGED recorderVars

\* A version counter that is left as it was
BumpVersionLost(v) == v

\* ++manager_.version_
BumpVersion(v) == v + 1

\* A loop body without the inner block: wh lives on through the for loop
NextBumpKeepsLock ==
    /\ nextPc = "drain"
    /\ ~DrainMore
    /\ version' = BumpVersion(version)
    /\ nextPc' = "dispatch"
    /\ coreIdx' = 1
    /\ UNCHANGED << nextQ, curQ, writeHeld, readHeld, cores, workerPc,
                    inManagerThread, pending, td, tdCount, logged, nextCalls,
                    curCalls, acceptedNext, batch, hist, accepted, started,
                    lastAdd >>
    /\ UNCHANGED recorderVars

\* The loop ends: ++manager_.version_, then wh goes out of scope.
NextBump ==
    /\ nextPc = "drain"
    /\ ~DrainMore
    /\ version' = BumpVersion(version)
    /\ writeHeld' = FALSE
    /\ nextPc' = "dispatch"
    /\ coreIdx' = 1
    /\ UNCHANGED << nextQ, curQ, readHeld, cores, workerPc, inManagerThread,
                    pending, td, tdCount, logged, nextCalls, curCalls,
                    acceptedNext, batch, hist, accepted, started, lastAdd >>
    /\ UNCHANGED recorderVars

\* One pass of the for loop:
\* manager_.scheduleRefresh(std::move(core), manager_.version_, true).
\* The add() behind it waits while curQ is full; an exception out of it would
\* leave the thread function.
NextDispatch ==
    /\ nextPc = "dispatch"
    /\ CurrentQueueUsable
    /\ AddOutcome(NextThread) # "blocked"
    /\ CurrentQueueAdd(NextThread, ScheduleRefresh(cores[coreIdx], version, TRUE))
    /\ hist' = IF AddOutcome(NextThread) = "written"
               THEN Append(hist, [batch |-> batch, core |-> cores[coreIdx],
                                  version |-> version, forced |-> TRUE])
               ELSE hist
    /\ IF AddOutcome(NextThread) = "overload"
       THEN /\ nextPc' = "crashed"
            /\ UNCHANGED << cores, coreIdx >>
       ELSE IF coreIdx < Len(cores)
            THEN /\ coreIdx' = coreIdx + 1
                 /\ UNCHANGED << nextPc, cores >>
            ELSE /\ nextPc' = "read"
                 /\ cores' = << >>
                 /\ coreIdx' = 0
    /\ UNCHANGED << nextQ, version, writeHeld, readHeld, workerPc,
                    inManagerThread, pending, td, tdCount, logged, nextCalls,
                    curCalls, acceptedNext, batch, started >>
    /\ UNCHANGED recorderVars

\* ------------------------------------------ readers of the version lock
\* A reader outside this file takes versionMutex_ shared
ReaderLock(r) ==
    /\ td = "live"
    /\ r \notin readHeld
    /\ ~writeHeld
    /\ readHeld' = readHeld \cup {r}
    /\ UNCHANGED << nextQ, curQ, version, writeHeld, nextPc, cores, coreIdx,
                    workerPc, inManagerThread, pending, td, tdCount, logged,
                    nextCalls, curCalls, acceptedNext, batch, hist, accepted,
                    started, lastAdd >>
    /\ UNCHANGED recorderVars

ReaderUnlock(r) ==
    /\ r \in readHeld
    /\ readHeld' = readHeld \ {r}
    /\ UNCHANGED << nextQ, curQ, version, writeHeld, nextPc, cores, coreIdx,
                    workerPc, inManagerThread, pending, td, tdCount, logged,
                    nextCalls, curCalls, acceptedNext, batch, hist, accepted,
                    started, lastAdd >>
    /\ UNCHANGED recorderVars

\* ------------------------------------------------------- ~ObserverManager
\* nextQueue_.release(): the unique_ptr gives up the NextQueue without
\* destroying it, so ~NextQueue does not run and the thread is not told to
\* stop.
ManagerDtorReleaseNext ==
    /\ td = "live"
    /\ CallersIdle
    /\ readHeld = {}
    /\ td' = "relNext"
    /\ UNCHANGED << nextQ, curQ, version, writeHeld, readHeld, nextPc, cores,
                    coreIdx, workerPc, inManagerThread, pending, tdCount, logged,
                    nextCalls, curCalls, acceptedNext, batch, hist, accepted,
                    started, lastAdd >>
    /\ UNCHANGED recorderVars

\* currentQueue_.release(), likewise; the manager object is gone afterwards.
ManagerDtorReleaseCurrent ==
    /\ td = "relNext"
    /\ td' = "released"
    /\ UNCHANGED << nextQ, curQ, version, writeHeld, readHeld, nextPc, cores,
                    coreIdx, workerPc, inManagerThread, pending, tdCount, logged,
                    nextCalls, curCalls, acceptedNext, batch, hist, accepted,
                    started, lastAdd >>
    /\ UNCHANGED recorderVars

\* The NextQueue thread uses manager_ after the manager was destroyed: the
\* access either finds the old memory (the thread's own actions) or faults.
NextUseAfterFree ==
    /\ ~ManagerAlive
    /\ nextPc \in {"lock", "drain", "dispatch"}
    /\ nextPc' = "crashed"
    /\ UNCHANGED << nextQ, curQ, version, writeHeld, readHeld, cores, coreIdx,
                    workerPc, inManagerThread, pending, td, tdCount, logged,
                    nextCalls, curCalls, acceptedNext, batch, hist, accepted,
                    started, lastAdd >>
    /\ UNCHANGED recorderVars

\* ------------------------------------------------------------ ~NextQueue
\* queue_.blockingWrite(nullptr)
NextQueueDtorPush ==
    /\ td = "live"
    /\ CallersIdle
    /\ readHeld = {}
    /\ \A w \in Workers : pending[w].op # "next"
    /\ ~IsFull(nextQ, kNextQueueSize)
    /\ nextQ' = Append(nextQ, NullCore)
    /\ td' = "nqJoin"
    /\ UNCHANGED << curQ, version, writeHeld, readHeld, nextPc, cores, coreIdx,
                    workerPc, inManagerThread, pending, tdCount, logged, nextCalls,
                    curCalls, acceptedNext, batch, hist, accepted, started,
                    lastAdd >>
    /\ UNCHANGED recorderVars

\* thread_.join()
NextQueueDtorJoin ==
    /\ td = "nqJoin"
    /\ nextPc = "done"
    /\ td' = "cqPush"
    /\ UNCHANGED << nextQ, curQ, version, writeHeld, readHeld, nextPc, cores,
                    coreIdx, workerPc, inManagerThread, pending, tdCount, logged,
                    nextCalls, curCalls, acceptedNext, batch, hist, accepted,
                    started, lastAdd >>
    /\ UNCHANGED recorderVars

\* --------------------------------------------------------- ~CurrentQueue
\* A destructor that pushes one sentinel for the whole pool
CurrentQueueDtorPushOnce ==
    /\ td = "cqPush"
    /\ ~IsFull(curQ, kCurrentQueueSize)
    /\ curQ' = Append(curQ, NullTask)
    /\ tdCount' = tdCount + 1
    /\ td' = "cqJoin"
    /\ UNCHANGED << nextQ, version, writeHeld, readHeld, nextPc, cores, coreIdx,
                    workerPc, inManagerThread, pending, logged, nextCalls, curCalls,
                    acceptedNext, batch, hist, accepted, started, lastAdd >>
    /\ UNCHANGED recorderVars

\* One pass of the first loop: queue_.blockingWrite(nullptr)
CurrentQueueDtorPush ==
    /\ td = "cqPush"
    /\ ~IsFull(curQ, kCurrentQueueSize)
    /\ curQ' = Append(curQ, NullTask)
    /\ tdCount' = tdCount + 1
    /\ td' = IF tdCount + 1 = kCurrentThreadPoolSize THEN "cqJoin" ELSE "cqPush"
    /\ UNCHANGED << nextQ, version, writeHeld, readHeld, nextPc, cores, coreIdx,
                    workerPc, inManagerThread, pending, logged, nextCalls, curCalls,
                    acceptedNext, batch, hist, accepted, started, lastAdd >>
    /\ UNCHANGED recorderVars

\* Every thread is joined, then CHECK(queue_.isEmpty())
CurrentQueueDtorJoin ==
    /\ td = "cqJoin"
    /\ \A w \in Workers : workerPc[w] = "done"
    /\ td' = IF curQ = << >> THEN "destroyed" ELSE "checkFailed"
    /\ UNCHANGED << nextQ, curQ, version, writeHeld, readHeld, nextPc, cores,
                    coreIdx, workerPc, inManagerThread, pending, tdCount, logged,
                    nextCalls, curCalls, acceptedNext, batch, hist, accepted,
                    started, lastAdd >>
    /\ UNCHANGED recorderVars

\* ----------------------------------------------------- DependencyRecorder
\* The thread-local pointer as thread t sees it: every thread has its own.
\* A pointer that is one static for all threads
CurrentDependenciesShared(t) == currentDependencies[<<"worker", 1>>]

CurrentDependencies(t) == currentDependencies[t]

\* Entering a scope installs a fresh set on thread t and keeps the pointer
\* that was current.
EnterRecordingScope(t) ==
    /\ Len(scopes[t]) < MaxScopeDepth
    /\ scopes' = [scopes EXCEPT ![t] =
                      Append(@, [deps |-> {}, previous |-> CurrentDependencies(t)])]
    /\ currentDependencies' =
          [currentDependencies EXCEPT ![t] = << t, Len(scopes[t]) + 1 >>]
    /\ readIn' = [readIn EXCEPT ![t] = Append(@, {})]
    /\ UNCHANGED << yielded, depReads >>
    /\ UNCHANGED vars

\* The set the pointer p refers to, with node n inserted
InsertAt(p, n) ==
    IF p[2] \in DOMAIN scopes[p[1]]
    THEN [scopes EXCEPT ![p[1]][p[2]].deps = @ \cup {n}]
    ELSE scopes

\* Thread t reads node n: the read consults the thread-local pointer and,
\* when it is not null, inserts n into the set it points to.
RecordRead(t, n) ==
    /\ depReads < MaxReads
    /\ depReads' = depReads + 1
    /\ scopes' = IF CurrentDependencies(t) = NullDeps
                 THEN scopes
                 ELSE InsertAt(CurrentDependencies(t), n)
    /\ readIn' = IF readIn[t] = << >>
                 THEN readIn
                 ELSE [readIn EXCEPT ![t][Len(readIn[t])] = @ \cup {n}]
    /\ UNCHANGED << currentDependencies, yielded >>
    /\ UNCHANGED vars

\* Leaving the innermost scope of thread t restores the pointer that was
\* current when the scope was entered and yields the accumulated set.
ExitRecordingScope(t) ==
    /\ scopes[t] # << >>
    /\ yielded' = [by |-> t,
                   deps |-> scopes[t][Len(scopes[t])].deps,
                   read |-> readIn[t][Len(readIn[t])]]
    /\ currentDependencies' =
          [currentDependencies EXCEPT ![t] = scopes[t][Len(scopes[t])].previous]
    /\ scopes' = [scopes EXCEPT ![t] = SubSeq(@, 1, Len(@) - 1)]
    /\ readIn' = [readIn EXCEPT ![t] = SubSeq(@, 1, Len(@) - 1)]
    /\ UNCHANGED depReads
    /\ UNCHANGED vars

\* ---------------------------------------------------------- specifications
Operate ==
    \/ \E c \in Callers : CallerScheduleCurrent(c)
    \/ \E c \in Callers : CallerScheduleNext(c)
    \/ \E t \in Callers \cup Workers : ResumeCurrent(t)
    \/ \E t \in Callers \cup Workers : ResumeNext(t)
    \/ \E w \in Workers : WorkerStart(w)
    \/ \E w \in Workers : WorkerRead(w)
    \/ \E w \in Workers : TaskReturns(w)
    \/ \E w \in Workers : TaskThrows(w)
    \/ \E w \in Workers : TaskScheduleCurrent(w)
    \/ \E w \in Workers : TaskScheduleNext(w)
    \/ NextBlockingRead
    \/ NextLock
    \/ NextDrain
    \/ NextBump
    \/ NextDispatch
    \/ \E r \in Readers : ReaderLock(r)
    \/ \E r \in Readers : ReaderUnlock(r)

\* ~ObserverManager as it is written
ManagerDtor ==
    \/ ManagerDtorReleaseNext
    \/ ManagerDtorReleaseCurrent
    \/ NextUseAfterFree

\* The destructors of the two queues, NextQueue first. ~ObserverManager as
\* written never reaches them; they are what destroying each queue does.
QueueDtors ==
    \/ NextQueueDtorPush
    \/ NextQueueDtorJoin
    \/ CurrentQueueDtorPush
    \/ CurrentQueueDtorJoin

Next == Operate \/ ManagerDtor \/ QueueDtors

Spec == Init /\ [][Next]_<< vars, recorderVars >>

\* The two queues under load: one external thread and the running tasks
\* keep calling scheduleNext, the NextQueue thread batches and dispatches,
\* the pool threads run the refresh tasks; no teardown.
Pipeline ==
    \/ CallerScheduleNextUpTo(<<"caller", 1>>, MaxPipelineCalls)
    \/ \E w \in Workers : TaskScheduleNextUpTo(w, MaxPipelineCalls)
    \/ \E t \in Callers \cup Workers : ResumeNext(t)
    \/ \E w \in Workers : WorkerStart(w)
    \/ \E w \in Workers : WorkerRead(w)
    \/ \E w \in Workers : TaskReturns(w)
    \/ NextBlockingRead
    \/ NextLock
    \/ NextDrain
    \/ NextBump
    \/ NextDispatch

SpecPipeline == Init /\ [][Pipeline]_<< vars, recorderVars >>

\* The dependency recorder on its own: threads entering and leaving
\* recording scopes and reading nodes
Recorder ==
    \/ \E t \in RecorderThreads : EnterRecordingScope(t)
    \/ \E t \in RecorderThreads, n \in DepNodes : RecordRead(t, n)
    \/ \E t \in RecorderThreads : ExitRecordingScope(t)

\* A step of the pool: a thread begins, reads a task, or its task returns
PoolStep ==
    \E w \in Workers : WorkerStart(w) \/ WorkerRead(w) \/ TaskReturns(w)

\* The pool does not stand still while one of its threads can take a step,
\* and the thread inside ~CurrentQueue gets through its joins.
SpecFair ==
    /\ Spec
    /\ WF_vars(PoolStep)
    /\ WF_vars(CurrentQueueDtorJoin)

SpecRecorder == Init /\ [][Recorder]_<< vars, recorderVars >>

\* ------------------------------------------------------------------ claims
HistIdx == DOMAIN hist

\* C1: all nodes the NextQueue thread collects into one batch are handed to
\* scheduleRefresh with one identical version, and that version is strictly
\* greater than the version given to every node of every earlier batch.
C1_BatchSharesOneIncreasingVersion ==
    \A i \in HistIdx, j \in HistIdx :
        /\ hist[i].batch = hist[j].batch => hist[i].version = hist[j].version
        /\ hist[i].batch < hist[j].batch => hist[i].version < hist[j].version

\* A batch of two nodes has been handed over after an earlier batch.
C1_Witness ==
    \E i \in HistIdx, j \in HistIdx, k \in HistIdx :
        /\ i # j
        /\ hist[i].batch = hist[j].batch
        /\ hist[k].batch < hist[i].batch

\* C2: the version changes only by the NextQueue thread's increment, by one,
\* with the write lock held and no reader inside, once for each batch that
\* goes on to dispatch and at no other time; so it never decreases and no
\* two dispatched batches get the same value.
C2_VersionBumpedOncePerBatch ==
    [][ /\ version' # version =>
            /\ version' = version + 1
            /\ writeHeld /\ readHeld = {}
            /\ nextPc = "drain" /\ nextPc' = "dispatch"
        /\ (nextPc # "dispatch" /\ nextPc' = "dispatch") => version' = version + 1
        /\ (nextPc = "dispatch" /\ nextPc' = "dispatch") => version' = version
      ]_vars

\* The second batch is being dispatched under the second version.
C2_Witness == nextPc = "dispatch" /\ batch = 2 /\ version = 2

\* The nodes handed to scheduleRefresh so far
DispatchedAt(n) == {i \in HistIdx : hist[i].core = n}

\* C3: every node reference accepted by scheduleNext is handed to the pool
\* exactly once and forced; stated for the runs in which the NextQueue
\* thread has ended: by then every accepted node has been handed over
\* exactly once.
C3_AcceptedNodeDispatchedOnce ==
    nextPc = "done" =>
        \A n \in acceptedNext :
            /\ Cardinality(DispatchedAt(n)) = 1
            /\ \A i \in DispatchedAt(n) : hist[i].forced

\* A step in which thread t issues scheduleCurrent
IssuesScheduleCurrent(t) == curCalls' = curCalls + 1 /\ lastAdd'.by = t

\* C4: scheduleCurrent called on a pool thread while curQ is at capacity
\* does not block: the one write() attempt fails, the overload error is
\* raised in the same step and curQ is left as it was.
C4_WorkerAddOnFullQueueThrows ==
    [][ \A w \in Workers :
          (IssuesScheduleCurrent(w) /\ IsFull(curQ, kCurrentQueueSize)) =>
              /\ lastAdd'.result = "overload"
              /\ curQ' = curQ
              /\ accepted' = accepted
              /\ pending'[w] = Idle
              /\ logged' = logged + 1
      ]_vars

\* A pool thread got the overload error with curQ still full.
C4_Witness ==
    /\ lastAdd.by \in Workers
    /\ lastAdd.result = "overload"
    /\ IsFull(curQ, kCurrentQueueSize)

\* C5: scheduleCurrent called on a thread that is no pool thread while curQ
\* is at capacity never gets the overload error and never loses the task:
\* the caller waits in the write, leaves it only when curQ has room, and
\* leaves it with its task appended; the NextQueue thread in its dispatch
\* loop likewise stays where it is while curQ is full.
C5_NonWorkerAddBlocksThenEnqueues ==
    [][ /\ \A c \in Callers :
              /\ (IssuesScheduleCurrent(c) /\ IsFull(curQ, kCurrentQueueSize)) =>
                    /\ lastAdd'.result = "blocked"
                    /\ pending'[c].op = "cur"
                    /\ curQ' = curQ
              /\ (pending[c].op = "cur" /\ pending'[c].op # "cur") =>
                    /\ ~IsFull(curQ, kCurrentQueueSize)
                    /\ curQ' = Append(curQ, WorkTask)
              /\ lastAdd'.by = c => lastAdd'.result # "overload"
        /\ (nextPc = "dispatch" /\ IsFull(curQ, kCurrentQueueSize)) =>
              /\ nextPc' \in {"dispatch", "crashed"}
              /\ UNCHANGED << cores, coreIdx, hist >>
        /\ (nextPc = "dispatch" /\ coreIdx' # coreIdx) =>
              /\ curQ' = Append(curQ, ScheduleRefresh(cores[coreIdx], version, TRUE))
              /\ lastAdd' = [by |-> NextThread, result |-> "written"]
      ]_vars

\* An external caller and the NextQueue thread both wait on the full curQ.
C5_Witness ==
    /\ \E c \in Callers : pending[c].op = "cur"
    /\ nextPc = "dispatch"
    /\ IsFull(curQ, kCurrentQueueSize)

\* C6: a task that throws on a pool thread does not end that thread and does
\* not touch curQ: the thread is back at its blocking read, and a pool
\* thread ends only by reading an empty task.
C6_FailingTaskKeepsWorker ==
    [][ /\ logged' # logged =>
              /\ logged' = logged + 1
              /\ \E w \in Workers :
                    /\ workerPc[w] = "run"
                    /\ workerPc' = [workerPc EXCEPT ![w] = "read"]
              /\ UNCHANGED << nextQ, nextPc, started, inManagerThread >>
              /\ curQ' = curQ
              /\ (lastAdd' # lastAdd => lastAdd'.result = "overload")
        /\ \A w \in Workers :
              (workerPc[w] # "done" /\ workerPc'[w] = "done") =>
                  /\ workerPc[w] = "read"
                  /\ curQ # << >> /\ Head(curQ).empty
      ]_vars

\* After a logged failure a later task is running.
C6_Witness ==
    /\ logged > 0
    /\ started > logged
    /\ \E w \in Workers : workerPc[w] = "run"

\* tasks (not sentinels) in curQ
TasksIn(q) == {i \in DOMAIN q : ~q[i].empty}
TaskRunning(w) == workerPc[w] = "run"

C8_TeardownStopsEveryThread ==
    td = "released" =>
        /\ nextPc = "done"
        /\ \A w \in Workers : workerPc[w] = "done"
        /\ curQ = << >>

\* C9: teardown is ordered: when ~ObserverManager turns to currentQueue_, the
\* NextQueue thread has already read its sentinel and ended, so it never
\* runs against a manager whose pool has been given up.
C9_NextQueueStoppedBeforePool ==
    [][ (td = "relNext" /\ td' # "relNext") => nextPc = "done" ]_vars

\* C10: NextQueue shutdown loses no work: when the NextQueue thread ends,
\* every batch it started has been dispatched and every node enqueued
\* before the sentinel is among the dispatched ones.
C10_ShutdownDispatchesQueuedNodes ==
    nextPc = "done" =>
        /\ \A b \in 1..batch : \E i \in HistIdx : hist[i].batch = b
        /\ \A n \in acceptedNext : DispatchedAt(n) # {}

\* C11: CurrentQueue shutdown leaves nothing behind: once one sentinel per
\* pool thread has been pushed and every pool thread has ended, curQ is
\* empty, so CHECK(queue_.isEmpty()) never fails; this covers a task that is
\* still running and calls scheduleCurrent after the sentinels were pushed.
C11_PoolShutdownLeavesQueueEmpty ==
    /\ (tdCount = kCurrentThreadPoolSize /\ \A w \in Workers : workerPc[w] = "done")
           => curQ = << >>
    /\ td # "checkFailed"

\* C12 as stated: the drain is finished before the write lock is taken, and
\* nothing but the increment runs under the lock, so the vector cores does
\* not change while the lock is held.
C12_DrainFinishedBeforeLock ==
    [][ writeHeld => cores' = cores ]_vars

\* C12, amended: the NextQueue thread holds the write lock around the
\* non-blocking drain and the increment, and around nothing else: the
\* blocking read that starts a batch runs without the lock, every further
\* core joins the batch with the lock held, and the lock is given up by the
\* increment that ends the drain (or by the return on a null core).
C12_LockCoversDrainAndIncrement ==
    /\ [] (/\ writeHeld => nextPc \in {"drain", "crashed"}
           /\ nextPc = "drain" => writeHeld)
    /\ [][ /\ (cores = << >> /\ cores' # << >>) =>
                 /\ ~writeHeld /\ ~writeHeld'
                 /\ Len(cores') = 1
           /\ (cores # << >> /\ cores' # << >> /\ cores' # cores) =>
                 /\ writeHeld /\ writeHeld'
                 /\ nextQ # << >> /\ cores' = Append(cores, Head(nextQ))
           /\ (writeHeld /\ ~writeHeld') =>
                 \/ version' = version + 1 /\ cores' = cores
                 \/ nextPc' = "done" /\ version' = version
         ]_vars

\* A second core has joined the batch under the lock.
C12_Witness == writeHeld /\ nextPc = "drain" /\ Len(cores) = 2

\* C13: inManagerThread_ is true on a thread exactly when the thread is a
\* pool thread whose thread function has begun: once set it stays set, also
\* while the thread runs a task that calls scheduleCurrent, and it is false
\* on the NextQueue thread and on every external thread; so add() throws
\* only on pool threads and waits only on the others.
C13_FlagMarksPoolThreads ==
    /\ [] (/\ \A t \in Threads :
                 inManagerThread[t] <=> (t \in Workers /\ workerPc[t] # "start")
           /\ lastAdd.by \in Workers => lastAdd.result \in {"written", "overload"}
           /\ lastAdd.by \notin Workers =>
                 lastAdd.result \in {"none", "written", "blocked"})
    /\ [][ /\ \A t \in Threads : inManagerThread[t] => inManagerThread'[t]
           /\ \A w \in Workers : IssuesScheduleCurrent(w) =>
                 /\ inManagerThread[w]
                 /\ workerPc[w] = "run"
         ]_vars

\* A task running on a pool thread has called scheduleCurrent with success
\* after the NextQueue thread dispatched a refresh.
C13_Witness ==
    /\ hist # << >>
    /\ \E w \in Workers :
          /\ workerPc[w] = "run"
          /\ lastAdd = [by |-> w, result |-> "written"]

\* C14: dependency recording is a set kept per thread: every open scope
\* holds exactly the nodes its own thread has read inside it, however often
\* and whatever other threads read meanwhile, a scope exit yields exactly
\* that set, and a read on a thread whose pointer is null (as it is at the
\* start and outside every scope) records nothing.
C14_RecordingIsPerThreadSet ==
    /\ [] (/\ \A t \in RecorderThreads :
                 /\ Len(scopes[t]) = Len(readIn[t])
                 /\ \A i \in DOMAIN scopes[t] : scopes[t][i].deps = readIn[t][i]
                 /\ currentDependencies[t] = NullDeps <=> scopes[t] = << >>
           /\ yielded.deps = yielded.read)
    /\ [][ (depReads' # depReads /\
              \A t \in RecorderThreads : currentDependencies[t] = NullDeps) =>
                 UNCHANGED << scopes, currentDependencies, yielded >>
         ]_recorderVars

\* The pool thread's scope has yielded {B, C} after four reads in all, while
\* the other thread has a scope open that holds D.
C14_Witness ==
    /\ yielded = [by |-> <<"worker", 1>>, deps |-> {"B", "C"}, read |-> {"B", "C"}]
    /\ depReads = MaxReads
    /\ scopes[<<"caller", 1>>] # << >>
    /\ scopes[<<"caller", 1>>][1].deps = {"D"}

\* C15: the NextQueue thread never hands a refresh to the pool, and so never
\* waits on a full curQ, with the write lock held: by the time it is in the
\* dispatch loop the lock taken for the batch has been given up, and every
\* scheduleRefresh call is made without it.
C15_DispatchWithoutWriteLock ==
    /\ [] (nextPc = "dispatch" => ~writeHeld)
    /\ [][ /\ hist' # hist =>
                 /\ ~writeHeld /\ ~writeHeld'
                 /\ hist'[Len(hist')].version = version
           /\ (nextPc # "dispatch" /\ nextPc' = "dispatch") =>
                 /\ writeHeld /\ ~writeHeld'
                 /\ hist' = hist
         ]_vars

\* The NextQueue thread waits on the full curQ in the middle of a batch
\* while a reader holds the lock shared.
C15_Witness ==
    /\ nextPc = "dispatch"
    /\ IsFull(curQ, kCurrentQueueSize)
    /\ coreIdx = 2
    /\ readHeld # {}

\* C16: the version advances atomically for readers: it does not change
\* while any thread holds the lock shared (writer and readers exclude each
\* other), and the batch is fixed when the version is incremented: from the
\* increment to the end of its dispatch the vector cores takes no further
\* node from nextQ, and what is dispatched is that vector, in order.
C16_VersionAdvanceAtomicForReaders ==
    /\ [] (/\ readHeld # {} => ~writeHeld
           /\ nextPc = "dispatch" =>
                 /\ coreIdx \in 1..Len(cores)
                 /\ Len(hist) >= coreIdx - 1
                 /\ \A k \in 1..(coreIdx - 1) :
                       /\ hist[Len(hist) - (coreIdx - 1) + k].core = cores[k]
                       /\ hist[Len(hist) - (coreIdx - 1) + k].batch = batch)
    /\ [][ /\ readHeld # {} => version' = version
           /\ version' # version => cores' = cores
           /\ (nextPc = "dispatch" /\ nextPc' = "dispatch") => cores' = cores
           /\ (nextPc = "dispatch" /\ nextPc' = "read") =>
                 /\ coreIdx = Len(cores)
                 /\ hist' = Append(hist, [batch |-> batch, core |-> cores[coreIdx],
                                          version |-> version, forced |-> TRUE])
         ]_vars

\* The NextQueue thread waits for the write lock behind a reader, with one
\* batch dispatched earlier and another node still in nextQ.
C16_Witness ==
    /\ readHeld # {}
    /\ nextPc = "lock"
    /\ version = 1
    /\ nextQ # << >>

\* sentinels (empty tasks) in curQ
SentinelsIn(q) == {i \in DOMAIN q : q[i].empty}
WorkersDone == {w \in Workers : workerPc[w] = "done"}

\* C17: every sentinel ~CurrentQueue pushes is taken by exactly one pool
\* thread, which ends: a sentinel is either still in curQ or has ended one
\* thread, a thread that has ended takes nothing more, after the last push
\* there is one sentinel in curQ for each thread still alive, and the joins
\* come to an end.
C17_EachSentinelEndsOneWorker ==
    /\ [] (/\ Cardinality(WorkersDone) + Cardinality(SentinelsIn(curQ)) = tdCount
           /\ tdCount <= kCurrentThreadPoolSize
           /\ td \in {"cqJoin", "destroyed", "checkFailed"} =>
                 tdCount = kCurrentThreadPoolSize
           /\ td \in {"destroyed", "checkFailed"} =>
                 WorkersDone = Workers /\ SentinelsIn(curQ) = {})
    /\ [][ /\ \A w \in WorkersDone : workerPc'[w] = "done"
           /\ Cardinality(SentinelsIn(curQ')) < Cardinality(SentinelsIn(curQ)) =>
                 \E w \in Workers \ WorkersDone :
                     /\ workerPc' = [workerPc EXCEPT ![w] = "done"]
                     /\ Head(curQ).empty /\ curQ' = Tail(curQ)
         ]_vars
    /\ (td = "cqJoin") ~> (td \in {"destroyed", "checkFailed"})

\* Both pool threads have ended on a sentinel of their own, one of them
\* after finishing a task it was running when the sentinels were pushed.
C17_Witness ==
    /\ td = "destroyed"
    /\ WorkersDone = Workers
    /\ started >= 1

\* the scheduleRefresh calls made for batch b
BatchEntries(b) == {i \in HistIdx : hist[i].batch = b}

\* C18: batching never waits for more input: once the blocking read has
\* returned a node the thread takes only what nextQ holds at each read, and
\* with nextQ empty it goes on to the increment; a batch has between 1 and
\* kNextQueueSize nodes; and one scheduleNext call with nothing after it is
\* dispatched as a batch of one under one increment (version counts the
\* increments since construction).
C18_BatchTakesOnlyQueuedNodes ==
    /\ [] (/\ Len(cores) <= kNextQueueSize
           /\ nextPc \in {"lock", "drain", "dispatch"} => Len(cores) >= 1
           /\ \A b \in 1..batch : Cardinality(BatchEntries(b)) <= kNextQueueSize
           /\ (nextPc = "drain" /\ nextQ = << >>) => ENABLED NextBump
           /\ (nextCalls = 1 /\ acceptedNext # {} /\ nextQ = << >> /\ nextPc = "read") =>
                 /\ batch = 1 /\ version = 1
                 /\ hist = << [batch |-> 1, core |-> 1, version |-> 1,
                               forced |-> TRUE] >>)
    /\ [][ /\ (nextPc = "drain" /\ nextQ = << >>) => cores' = cores
           /\ (nextPc = "drain" /\ cores' # cores /\ nextPc' = "drain") =>
                 /\ Len(cores) < kNextQueueSize
                 /\ cores' = Append(cores, Head(nextQ))
                 /\ nextQ' = Tail(nextQ)
           /\ (nextPc = "dispatch" /\ nextPc' = "read") =>
                 Cardinality(BatchEntries(batch)') = Len(cores)
         ]_vars

\* The only scheduleNext call of the run has been dispatched: one batch of
\* one node, one increment.
C18_Witness ==
    /\ nextCalls = 1
    /\ nextPc = "read"
    /\ Len(hist) = 1
    /\ batch = 1
    /\ td = "live"

\* C19: the overload error of scheduleCurrent inside a running task fails
\* that task only: the step that raises it takes the calling pool thread
\* from the task back to its blocking read, with one line logged, ends no
\* pool thread and leaves the other threads and curQ as they were, so the
\* thread goes on reading the (full) queue.
C19_OverloadFailsTaskOnly ==
    [][ \A w \in Workers :
          (lastAdd' = [by |-> w, result |-> "overload"] /\ curCalls' # curCalls) =>
              /\ workerPc[w] = "run"
              /\ workerPc' = [workerPc EXCEPT ![w] = "read"]
              /\ WorkersDone' = WorkersDone
              /\ logged' = logged + 1
              /\ curQ' = curQ /\ curQ # << >>
              /\ started' = started /\ accepted' = accepted
              /\ UNCHANGED << nextPc, inManagerThread, pending >>
      ]_vars

\* The pool thread whose task got the overload error is running a later
\* task.
C19_Witness ==
    \E w \in Workers :
        /\ lastAdd = [by |-> w, result |-> "overload"]
        /\ workerPc[w] = "run"
        /\ logged >= 1

\* C20: the two queues cannot deadlock when tasks call scheduleNext: in no
\* reachable state does the NextQueue thread wait in its blocking write to
\* a full curQ while every pool thread waits in scheduleNext's blocking
\* write to a full nextQ.
C20_PipelineDeadlockFree ==
    ~ (/\ nextPc = "dispatch"
       /\ IsFull(curQ, kCurrentQueueSize)
       /\ IsFull(nextQ, kNextQueueSize)
       /\ \A w \in Workers : pending[w].op = "next")

====
